---- MODULE Spec2Model ----
(***************************************************************************)
(* Model of the SSD1306 driver code of pico-thermostat: src/src/display.c  *)
(* (glyph packing, region addressing, framing) and src/src/main.c (the     *)
(* oled_* variant of the same protocol layer), talking over one I2C bus to *)
(* one display controller.                                                 *)
(*                                                                         *)
(* C arrays are modelled as sequences: C index n is sequence index n+1.    *)
(***************************************************************************)
EXTENDS Integers, Sequences, FiniteSets, TLC

VARIABLES pc, calls, call, wire, buffer, buffer_len, reads, writes, dev, allocs

vars == <<pc, calls, call, wire, buffer, buffer_len, reads, writes, dev, allocs>>

(***************************************************************************)
(* Bounds of the model.                                                    *)
(***************************************************************************)
MaxCalls == 1

(***************************************************************************)
(* Program constants (display.c / main.c #defines).                        *)
(***************************************************************************)
SET_CONTRAST == 129
SET_MEM_ADDR == 32
SET_COL_ADDR == 33
SET_PAGE_ADDR == 34
SET_DISP_OFFSET == 211
SET_DISP_CLK_DIV == 213
SET_PRECHARGE == 217
SET_VCOM_DESEL == 219
SET_CHARGE_PUMP == 141
ADDR == 60
HEIGHT == 64
WIDTH == 128
PAGE_HEIGHT == 8
NUM_PAGES == HEIGHT \div PAGE_HEIGHT
BUF_LEN == NUM_PAGES * WIDTH

OLED_SET_COL_ADDR == 33
OLED_SET_PAGE_ADDR == 34
OLED_ADDR == 60
OLED_HEIGHT == 64
OLED_WIDTH == 128
OLED_PAGE_HEIGHT == 8
OLED_NUM_PAGES == OLED_HEIGHT \div OLED_PAGE_HEIGHT
OLED_WRITE_MODE == 254

(***************************************************************************)
(* C integer arithmetic on non-negative values.                            *)
(***************************************************************************)
RECURSIVE BitAnd(_, _)
BitAnd(a, b) ==
  IF a = 0 \/ b = 0 THEN 0
  ELSE (a % 2) * (b % 2) + 2 * BitAnd(a \div 2, b \div 2)

RECURSIVE BitOr(_, _)
BitOr(a, b) ==
  IF a = 0 THEN b
  ELSE IF b = 0 THEN a
  ELSE (IF a % 2 = 1 \/ b % 2 = 1 THEN 1 ELSE 0) + 2 * BitOr(a \div 2, b \div 2)

\* a << n; the operands here are a byte and a shift of at most 7, so the
\* 32-bit result never wraps
Shl(a, n) == a * 2^n

\* conversion to uint8_t
u8(v) == v % 256

\* #define GET_BIT(x, pos) (x & (1UL << pos))
GET_BIT(x, pos) == BitAnd(x, Shl(1, pos))

\* #define SET_BIT(x, pos, in) (x |= ((unsigned)in << pos)), x an uint8_t lvalue
SET_BIT(x, pos, in) == u8(BitOr(x, Shl(in, pos)))

(***************************************************************************)
(* The bus: one call of i2c_write_blocking is one transaction carrying the *)
(* first len bytes of src to the device at addr.                           *)
(***************************************************************************)
i2c_write_blocking(addr, src, len) ==
  [addr |-> addr, bytes |-> SubSeq(src, 1, len)]

(***************************************************************************)
(* display.c: protocol layer                                               *)
(***************************************************************************)
write_buffer(buf, len, command) ==
  LET buffer_with_control_byte ==
        <<IF command THEN 0 ELSE 64>> \o SubSeq(buf, 1, len)
  IN <<i2c_write_blocking(BitOr(ADDR, 0), buffer_with_control_byte, len)>>

\* write_byte with the control bytes of the two cases exchanged
write_byte_swapped(byte, command) ==
  LET message == <<IF command THEN 192 ELSE 128, byte>>
  IN <<i2c_write_blocking(BitOr(ADDR, 0), message, 2)>>

write_byte(byte, command) ==
  LET message == <<IF command THEN 128 ELSE 192, byte>>
  IN <<i2c_write_blocking(BitOr(ADDR, 0), message, 2)>>

send_cmd(cmd) == write_byte(cmd, TRUE)

write_data_buffer(buf, len) == write_buffer(buf, len, FALSE)

\* the length write_buffer_to hands to write_data_buffer (int arithmetic on
\* the promoted uint8_t parameters)
write_buffer_to_len(start_page, end_page, start_segment, end_segment) ==
  (end_page - start_page) * (end_segment - start_segment)

\* write_buffer_to that streams the data before it has addressed the region
write_buffer_to_data_first(buf, start_page, end_page, start_segment, end_segment) ==
  write_data_buffer(buf,
       write_buffer_to_len(start_page, end_page, start_segment, end_segment))
  \o send_cmd(SET_PAGE_ADDR) \o send_cmd(start_page) \o send_cmd(end_page)
  \o send_cmd(SET_COL_ADDR) \o send_cmd(start_segment) \o send_cmd(end_segment)

write_buffer_to(buf, start_page, end_page, start_segment, end_segment) ==
  send_cmd(SET_PAGE_ADDR) \o send_cmd(start_page) \o send_cmd(end_page)
  \o send_cmd(SET_COL_ADDR) \o send_cmd(start_segment) \o send_cmd(end_segment)
  \o write_data_buffer(buf,
       write_buffer_to_len(start_page, end_page, start_segment, end_segment))

(***************************************************************************)
(* display.c: write_glyph.  heap is the content malloc returns (the buffer *)
(* is never initialised), oob is what a read past the end of gly.buf       *)
(* yields.                                                                 *)
(***************************************************************************)
glyph_pages(gly) == gly.height \div PAGE_HEIGHT

glyph_byte_cols(gly) == gly.width \div 8

glyph_malloc_size(gly) == glyph_pages(gly) * gly.width

\* one execution of the innermost statement (line 217); n enumerates the
\* iterations of the four nested loops in execution order
glyph_loop_body(gly, oob, st, n) ==
  LET bc  == glyph_byte_cols(gly)
      i   == n \div (PAGE_HEIGHT * bc * 8)
      j   == (n \div (bc * 8)) % PAGE_HEIGHT
      k   == (n \div 8) % bc
      m   == n % 8
      src == (j * 8) + (i * PAGE_HEIGHT) + k
      dst == (i * PAGE_HEIGHT) + (k * 8) + m
      byte == IF src < Len(gly.buf) THEN gly.buf[src + 1] ELSE oob
  IN [buf    |-> IF dst < Len(st.buf)
                 THEN [st.buf EXCEPT ![dst + 1] = SET_BIT(@, 7 - m, GET_BIT(byte, j))]
                 ELSE st.buf,
      reads  |-> st.reads \cup {src},
      writes |-> st.writes \cup {dst}]

\* iterations lo..hi of the loop nest, in order, from state st; the range is
\* split in two and the first half is evaluated (left = left) before the
\* second starts from its result
RECURSIVE glyph_loop_range(_, _, _, _, _)
glyph_loop_range(gly, oob, st, lo, hi) ==
  IF lo > hi THEN st
  ELSE IF lo = hi THEN glyph_loop_body(gly, oob, st, lo)
  ELSE LET mid  == (lo + hi) \div 2
           left == glyph_loop_range(gly, oob, st, lo, mid)
       IN IF left = left THEN glyph_loop_range(gly, oob, left, mid + 1, hi)
          ELSE st

glyph_loops(gly, heap, oob) ==
  LET total == glyph_pages(gly) * PAGE_HEIGHT * glyph_byte_cols(gly) * 8
  IN glyph_loop_range(gly, oob,
                      [buf |-> [d \in 1..glyph_malloc_size(gly) |-> heap],
                       reads |-> {}, writes |-> {}],
                      0, total - 1)

write_glyph_area(gly, x, y) ==
  [start_page    |-> u8(y \div PAGE_HEIGHT),
   end_page      |-> u8((gly.height + y) \div PAGE_HEIGHT),
   start_segment |-> u8(x),
   end_segment   |-> u8(x + gly.width)]

write_glyph(gly, x, y, heap, oob) ==
  LET st == glyph_loops(gly, heap, oob)
      a  == write_glyph_area(gly, x, y)
  IN [wire   |-> write_buffer_to(st.buf, a.start_page, a.end_page,
                                 a.start_segment, a.end_segment),
      buf    |-> st.buf,
      len    |-> write_buffer_to_len(a.start_page, a.end_page,
                                     a.start_segment, a.end_segment),
      reads  |-> st.reads,
      writes |-> st.writes,
      result |-> "ok"]

(***************************************************************************)
(* display.c: clear_gddram and init                                        *)
(***************************************************************************)
clear_gddram ==
  LET buf == [n \in 1..(WIDTH * PAGE_HEIGHT) |-> 0]
  IN write_data_buffer(buf, WIDTH * PAGE_HEIGHT)

RECURSIVE send_cmds(_)
send_cmds(cmds) ==
  IF cmds = <<>> THEN <<>> ELSE send_cmd(Head(cmds)) \o send_cmds(Tail(cmds))

init ==
  send_cmds(<<174, 32, 64, 161, 63, HEIGHT - 1, 200, SET_DISP_OFFSET, 0,
              18, 18, SET_DISP_CLK_DIV, 128, SET_PRECHARGE, 241,
              SET_VCOM_DESEL, 48, SET_CONTRAST, 255, 165, 166,
              SET_CHARGE_PUMP, 20, 46, 175>>)

(***************************************************************************)
(* The heap: n is the number of blocks allocated and not yet freed.  Each  *)
(* operation's effect on it follows its malloc, calloc and free calls in   *)
(* program order, callees included.                                        *)
(***************************************************************************)
malloc(n) == n + 1

calloc(n) == n + 1

free(n) == n - 1

\* write_buffer: malloc (line 127) ... free (line 131)
write_buffer_heap(n) == free(malloc(n))

write_data_buffer_heap(n) == write_buffer_heap(n)

\* write_buffer_to allocates nothing itself; it ends in write_data_buffer
write_buffer_to_heap(n) == write_data_buffer_heap(n)

\* write_glyph: malloc (line 204), write_buffer_to (line 224), return
write_glyph_heap(n) == write_buffer_to_heap(malloc(n))

\* clear_gddram: calloc (line 232), write_data_buffer (233), free (234)
clear_gddram_heap(n) == free(write_data_buffer_heap(calloc(n)))

\* oled_send_buf: malloc (line 167) ... free (line 177)
oled_send_buf_heap(n) == free(malloc(n))

\* render allocates nothing itself; it ends in oled_send_buf
render_heap(n) == oled_send_buf_heap(n)

(***************************************************************************)
(* main.c: the oled_* protocol layer and render                            *)
(***************************************************************************)
calc_render_area(area) ==
  (area.end_col - area.start_col + 1) * (area.end_page - area.start_page + 1)

oled_send_cmd(cmd) ==
  LET buf == <<128, cmd>>
  IN <<i2c_write_blocking(BitAnd(OLED_ADDR, OLED_WRITE_MODE), buf, 2)>>

oled_send_buf(buf, buflen) ==
  LET temp_buf == <<64>> \o [i \in 1..buflen |-> buf[i]]
  IN <<i2c_write_blocking(BitAnd(OLED_ADDR, OLED_WRITE_MODE), temp_buf, buflen + 1)>>

RECURSIVE oled_send_cmds(_)
oled_send_cmds(cmds) ==
  IF cmds = <<>> THEN <<>>
  ELSE oled_send_cmd(Head(cmds)) \o oled_send_cmds(Tail(cmds))

oled_init ==
  oled_send_cmds(<<174, 32, 0, 64, 161, 63, OLED_HEIGHT - 1, 200, 211, 0,
                   18, 18, 213, 128, 217, 241, 219, 48, 129, 255, 165, 166,
                   141, 20, 46, 175>>)

render(gly, ra) ==
  oled_send_cmd(OLED_SET_COL_ADDR) \o oled_send_cmd(ra.start_col)
  \o oled_send_cmd(ra.end_col)
  \o oled_send_cmd(OLED_SET_PAGE_ADDR) \o oled_send_cmd(ra.start_page)
  \o oled_send_cmd(ra.end_page)
  \o oled_send_buf(gly.buf, gly.len)

\* main(): the render area of the entire frame and the blank screen glyph
frame_area ==
  [start_col |-> 0, end_col |-> OLED_WIDTH - 1,
   start_page |-> 0, end_page |-> OLED_NUM_PAGES - 1]

blank_screen ==
  [buf |-> [n \in 1..calc_render_area(frame_area) |-> 0],
   len |-> calc_render_area(frame_area)]

(***************************************************************************)
(* The display controller at the other end of the bus, as the driver's     *)
(* comments describe it: a control byte opens every transmission (Co set:  *)
(* one byte follows; Co clear: the rest of the transmission; D/C# selects  *)
(* command or GDDRAM data), the column and page range commands take a      *)
(* start and an end, and in horizontal addressing mode the column pointer  *)
(* auto-increments and wraps to the next page.                             *)
(***************************************************************************)
\* number of operand bytes that follow an opcode
OperandCount(opcode) ==
  IF opcode \in {SET_COL_ADDR, SET_PAGE_ADDR} THEN 2
  ELSE IF opcode \in {SET_CONTRAST, SET_MEM_ADDR, SET_DISP_OFFSET,
                      SET_DISP_CLK_DIV, SET_PRECHARGE, SET_VCOM_DESEL,
                      SET_CHARGE_PUMP} THEN 1
  ELSE 0

DevCommand(d, byte) ==
  IF d.pending = <<>>
  THEN IF OperandCount(byte) > 0 THEN [d EXCEPT !.pending = <<byte>>] ELSE d
  ELSE LET p == Append(d.pending, byte)
       IN IF Len(p) < 1 + OperandCount(p[1]) THEN [d EXCEPT !.pending = p]
          ELSE IF p[1] = SET_COL_ADDR
          THEN [d EXCEPT !.pending = <<>>, !.col_start = p[2] % WIDTH,
                         !.col_end = p[3] % WIDTH, !.col = p[2] % WIDTH]
          ELSE IF p[1] = SET_PAGE_ADDR
          THEN [d EXCEPT !.pending = <<>>, !.page_start = p[2] % NUM_PAGES,
                         !.page_end = p[3] % NUM_PAGES, !.page = p[2] % NUM_PAGES]
          ELSE [d EXCEPT !.pending = <<>>]

DevData(d, byte) ==
  LET wrap == d.col = d.col_end
  IN [d EXCEPT !.gddram[d.page * WIDTH + d.col + 1] = byte,
               !.col  = IF wrap THEN d.col_start ELSE (d.col + 1) % WIDTH,
               !.page = IF ~wrap THEN d.page
                        ELSE IF d.page = d.page_end THEN d.page_start
                        ELSE (d.page + 1) % NUM_PAGES]

DevByte(d, byte, isData) ==
  IF isData THEN DevData(d, byte) ELSE DevCommand(d, byte)

\* the bytes lo..hi of a transmission, one after the other (the range is
\* split in two, the first half evaluated before the second)
RECURSIVE DevStream(_, _, _, _, _)
DevStream(d, bytes, isData, lo, hi) ==
  IF lo > hi THEN d
  ELSE IF lo = hi THEN DevByte(d, bytes[lo], isData)
  ELSE LET mid  == (lo + hi) \div 2
           left == DevStream(d, bytes, isData, lo, mid)
       IN IF left = left THEN DevStream(left, bytes, isData, mid + 1, hi)
          ELSE d

RECURSIVE DevBytes(_, _)
DevBytes(d, bytes) ==
  IF Len(bytes) < 2 THEN d
  ELSE LET co     == bytes[1] \div 128 = 1
           isData == (bytes[1] \div 64) % 2 = 1
       IN IF co
          THEN DevBytes(DevByte(d, bytes[2], isData), SubSeq(bytes, 3, Len(bytes)))
          ELSE DevStream(d, bytes, isData, 2, Len(bytes))

DevTransaction(d, t) == IF t.addr = ADDR THEN DevBytes(d, t.bytes) ELSE d

\* the controller after the transactions of w, in order
RECURSIVE Deliver(_, _)
Deliver(d, w) ==
  IF w = <<>> THEN d
  ELSE LET next == DevTransaction(d, Head(w))
       IN IF next = next THEN Deliver(next, Tail(w)) ELSE d

\* the controller after power-on: full address window, pointers at 0,
\* memory content not defined (one fill value per power-on)
PowerOnFill == {0, 255}

DevPowerOn(fill) ==
  [gddram |-> [n \in 1..BUF_LEN |-> fill],
   col_start |-> 0, col_end |-> WIDTH - 1,
   page_start |-> 0, page_end |-> NUM_PAGES - 1,
   col |-> 0, page |-> 0, pending |-> <<>>]

(***************************************************************************)
(* Inputs of the operations.                                               *)
(***************************************************************************)
ZeroGlyph(w, h, n) == [width |-> w, height |-> h, buf |-> [i \in 1..n |-> 0]]

\* the glyph of w x h pixels whose only set bit is bit b of byte s
SingleBitGlyph(w, h, s, b) ==
  [width |-> w, height |-> h,
   buf |-> [i \in 1..((w \div 8) * h) |-> IF i = s + 1 THEN 2^b ELSE 0]]

ValidDims == {<<8, 8>>, <<16, 8>>, <<64, 8>>, <<8, 16>>}

SetBits == {<<0, 0>>, <<0, 7>>, <<9, 1>>}

Glyphs ==
  {ZeroGlyph(d[1], d[2], (d[1] \div 8) * d[2]) : d \in ValidDims}
  \cup {SingleBitGlyph(ds[1][1], ds[1][2], ds[2][1], ds[2][2]) :
          ds \in {e \in ValidDims \X SetBits : e[2][1] < (e[1][1] \div 8) * e[1][2]}}
  \cup {ZeroGlyph(10, 8, 16), ZeroGlyph(0, 8, 0)}

Origins == {<<0, 0>>, <<120, 56>>}

\* content of freshly allocated memory, and of memory past the glyph bits
HeapFill == {0, 165}
OobFill == {0, 255}

CmdBytes == {SET_CONTRAST, SET_COL_ADDR, 0, 255}

Payloads == {<<>>, <<255, 0>>, <<1, 2, 3>>}

RenderCalls ==
  {[gly |-> blank_screen, ra |-> frame_area],
   [gly |-> [buf |-> <<1, 2, 4, 8, 16, 32, 64, 128>>, len |-> 8],
    ra  |-> [start_col |-> 8, end_col |-> 15, start_page |-> 2, end_page |-> 2]]}

NoGlyph == [width |-> 0, height |-> 0, buf |-> <<>>]
NoArea == [start_col |-> 0, end_col |-> 0, start_page |-> 0, end_page |-> 0]

NoCall ==
  [fn |-> "none", gly |-> NoGlyph, x |-> 0, y |-> 0, heap |-> 0, oob |-> 0,
   cmd |-> 0, buf |-> <<>>, ra |-> NoArea, result |-> "ok"]

(***************************************************************************)
(* The state machine: power-on, one of the two init sequences, then calls  *)
(* of the operations.  wire is the list of bus transactions of the last    *)
(* call; buffer, buffer_len, reads and writes are write_glyph's packed     *)
(* buffer, the length it hands to the data write and the indices it        *)
(* accessed.                                                               *)
(***************************************************************************)
Init ==
  /\ pc = "boot"
  /\ calls = 0
  /\ call = NoCall
  /\ wire = <<>>
  /\ buffer = <<>>
  /\ buffer_len = 0
  /\ reads = {}
  /\ writes = {}
  /\ allocs = 0
  /\ \E fill \in PowerOnFill : dev = DevPowerOn(fill)

\* a call that only talks to the bus: it emits the transactions of emitted,
\* which the controller receives in order
BusCall(c, emitted) ==
  /\ call' = c
  /\ \E w \in {emitted} : wire' = w /\ dev' = Deliver(dev, w)
  /\ buffer' = <<>>
  /\ buffer_len' = 0
  /\ reads' = {}
  /\ writes' = {}

CallInit ==
  /\ pc = "boot"
  /\ pc' = "ready"
  /\ BusCall([NoCall EXCEPT !.fn = "init"], init)
  /\ UNCHANGED <<calls, allocs>>

CallOledInit ==
  /\ pc = "boot"
  /\ pc' = "ready"
  /\ BusCall([NoCall EXCEPT !.fn = "oled_init"], oled_init)
  /\ UNCHANGED <<calls, allocs>>

Ready ==
  /\ pc = "ready"
  /\ calls < MaxCalls
  /\ calls' = calls + 1
  /\ UNCHANGED pc

CallSendCmd ==
  /\ Ready
  /\ \E cmd \in CmdBytes :
       BusCall([NoCall EXCEPT !.fn = "send_cmd", !.cmd = cmd], send_cmd(cmd))
  /\ UNCHANGED allocs

CallWriteDataBuffer ==
  /\ Ready
  /\ \E buf \in Payloads :
       BusCall([NoCall EXCEPT !.fn = "write_data_buffer", !.buf = buf],
               write_data_buffer(buf, Len(buf)))
  /\ allocs' = write_data_buffer_heap(allocs)

CallWriteGlyph ==
  /\ Ready
  /\ \E gly \in Glyphs, o \in Origins, heap \in HeapFill, oob \in OobFill :
       \E r \in {write_glyph(gly, o[1], o[2], heap, oob)} :
          /\ call' = [NoCall EXCEPT !.fn = "write_glyph", !.gly = gly,
                                    !.x = o[1], !.y = o[2],
                                    !.heap = heap, !.oob = oob,
                                    !.result = r.result]
          /\ wire' = r.wire
          /\ dev' = Deliver(dev, r.wire)
          /\ buffer' = r.buf
          /\ buffer_len' = r.len
          /\ reads' = r.reads
          /\ writes' = r.writes
  /\ allocs' = write_glyph_heap(allocs)

CallClearGddram ==
  /\ Ready
  /\ BusCall([NoCall EXCEPT !.fn = "clear_gddram"], clear_gddram)
  /\ allocs' = clear_gddram_heap(allocs)

CallOledSendCmd ==
  /\ Ready
  /\ \E cmd \in CmdBytes :
       BusCall([NoCall EXCEPT !.fn = "oled_send_cmd", !.cmd = cmd],
               oled_send_cmd(cmd))
  /\ UNCHANGED allocs

CallOledSendBuf ==
  /\ Ready
  /\ \E buf \in Payloads :
       BusCall([NoCall EXCEPT !.fn = "oled_send_buf", !.buf = buf],
               oled_send_buf(buf, Len(buf)))
  /\ allocs' = oled_send_buf_heap(allocs)

CallRender ==
  /\ Ready
  /\ \E rc \in RenderCalls :
       BusCall([NoCall EXCEPT !.fn = "render", !.buf = rc.gly.buf, !.ra = rc.ra],
               render(rc.gly, rc.ra))
  /\ allocs' = render_heap(allocs)

Next ==
  \/ CallInit
  \/ CallOledInit
  \/ CallSendCmd
  \/ CallWriteDataBuffer
  \/ CallWriteGlyph
  \/ CallClearGddram
  \/ CallOledSendCmd
  \/ CallOledSendBuf
  \/ CallRender

Spec == Init /\ [][Next]_vars

(***************************************************************************)
(* Vocabulary of the properties.                                           *)
(***************************************************************************)
ValidDimensions(g) ==
  /\ g.width > 0 /\ g.width % 8 = 0
  /\ g.height > 0 /\ g.height % 8 = 0

ValidGlyph(g) ==
  /\ ValidDimensions(g)
  /\ Len(g.buf) = (g.width \div 8) * g.height

\* the set bits of a byte array, as <<C index of the byte, bit position>>
BitsSet(buf) ==
  {e \in (0..(Len(buf) - 1)) \X (0..7) : (buf[e[1] + 1] \div 2^(e[2])) % 2 = 1}

GlyphCall == call.fn = "write_glyph"

\* the operand sent in wire[i]
Operand(i) == wire[i].bytes[2]

\* the position in wire of the transaction group that opens with opcode
GroupOf(opcode) == CHOOSE i \in {1, 4} : Operand(i) = opcode

\* the render operations the region claims speak of: write_glyph on a valid
\* glyph at a page-aligned origin, and render
RenderCall ==
  \/ GlyphCall /\ ValidGlyph(call.gly) /\ call.y % PAGE_HEIGHT = 0
  \/ call.fn = "render"

\* the column and page range the call is to address
CallArea ==
  IF GlyphCall
  THEN LET a == write_glyph_area(call.gly, call.x, call.y)
       IN [start_col |-> a.start_segment, end_col |-> a.end_segment,
           start_page |-> a.start_page, end_page |-> a.end_page]
  ELSE call.ra

(***************************************************************************)
(* C1: a glyph of height 8 with exactly one set bit, at bit m of the       *)
(* source byte in byte-column k, packed into a zeroed destination, yields  *)
(* a buffer with exactly one set bit: bit 7-m of byte k*8+m.               *)
(***************************************************************************)
C1_SinglePixelPlacement ==
  (/\ GlyphCall
   /\ ValidGlyph(call.gly)
   /\ call.gly.height = 8
   /\ call.heap = 0
   /\ Cardinality(BitsSet(call.gly.buf)) = 1)
  => LET e == CHOOSE b \in BitsSet(call.gly.buf) : TRUE
         k == e[1] % (call.gly.width \div 8)
         m == e[2]
     IN BitsSet(buffer) = {<<k * 8 + m, 7 - m>>}

(***************************************************************************)
(* C2: every data-stream write of a payload of n bytes is one transaction  *)
(* of n+1 bytes: the control byte 0x40, then the payload in order.         *)
(***************************************************************************)
C2_SendDataFraming ==
  call.fn \in {"write_data_buffer", "oled_send_buf"}
  => /\ Len(wire) = 1
     /\ wire[1].bytes = <<64>> \o call.buf

(***************************************************************************)
(* C3: the number of payload bytes write_glyph hands to the data write is  *)
(* region_length of the page and column range it has just sent:            *)
(* (end_page - start_page + 1) * (end_col - start_col + 1).                *)
(***************************************************************************)
C3_LengthMatchesRegion ==
  (GlyphCall /\ RenderCall)
  => LET p == GroupOf(SET_PAGE_ADDR)
         c == GroupOf(SET_COL_ADDR)
     IN buffer_len = (Operand(p + 2) - Operand(p + 1) + 1)
                     * (Operand(c + 2) - Operand(c + 1) + 1)

(***************************************************************************)
(* C4: when the glyph lies inside the 128 x 64 display, the operands of    *)
(* the range commands satisfy 0 <= start_page <= end_page < 8 and          *)
(* 0 <= start_col <= end_col < 128.                                        *)
(***************************************************************************)
InsideDisplay ==
  IF GlyphCall
  THEN call.x + call.gly.width <= WIDTH /\ call.y + call.gly.height <= HEIGHT
  ELSE call.ra.end_col < WIDTH /\ call.ra.end_page < NUM_PAGES

C4_RenderAreaBounds ==
  (RenderCall /\ InsideDisplay)
  => LET p == GroupOf(SET_PAGE_ADDR)
         c == GroupOf(SET_COL_ADDR)
     IN /\ 0 <= Operand(p + 1) /\ Operand(p + 1) <= Operand(p + 2)
        /\ Operand(p + 2) < NUM_PAGES
        /\ 0 <= Operand(c + 1) /\ Operand(c + 1) <= Operand(c + 2)
        /\ Operand(c + 2) < WIDTH

(***************************************************************************)
(* C5: write_glyph on a glyph whose width or height is not a positive      *)
(* multiple of 8 ends in InvalidGlyphDimensions without any bus            *)
(* transaction.                                                            *)
(***************************************************************************)
C5_RejectsInvalidDimensions ==
  (GlyphCall /\ ~ValidDimensions(call.gly))
  => /\ call.result = "InvalidGlyphDimensions"
     /\ wire = <<>>

(***************************************************************************)
(* C6: an all-zero glyph of valid dimensions packs to an all-zero buffer   *)
(* of width*height/8 bytes.                                                *)
(***************************************************************************)
C6_ZeroGlyphZeroBuffer ==
  (GlyphCall /\ ValidGlyph(call.gly) /\ BitsSet(call.gly.buf) = {})
  => /\ Len(buffer) = (call.gly.width * call.gly.height) \div 8
     /\ \A n \in 1..Len(buffer) : buffer[n] = 0

(***************************************************************************)
(* C7: send_cmd and oled_send_cmd each perform exactly one transaction,    *)
(* to device 0x3C, of exactly the two bytes 0x80, c.                       *)
(***************************************************************************)
C7_SendCommandFraming ==
  call.fn \in {"send_cmd", "oled_send_cmd"}
  => wire = <<[addr |-> 60, bytes |-> <<128, call.cmd>>]>>

C7_Witness ==
  /\ call.fn = "send_cmd"
  /\ call.cmd = SET_CONTRAST
  /\ Len(wire) = 1
  /\ wire[1].bytes = <<128, 129>>

(***************************************************************************)
(* C8: once clear_gddram has returned, every byte of the controller's      *)
(* GDDRAM is zero.                                                         *)
(***************************************************************************)
C8_ClearClearsAll ==
  call.fn = "clear_gddram" => \A n \in 1..BUF_LEN : dev.gddram[n] = 0

(***************************************************************************)
(* C9: a render operation emits six single-byte command transactions, the  *)
(* column-range opcode and the page-range opcode each immediately          *)
(* followed by its start and its end, and then one data transaction; no    *)
(* data transaction comes before the six commands.                         *)
(***************************************************************************)
IsCommand(t) == Len(t.bytes) = 2 /\ t.bytes[1] = 128

IsData(t) == Len(t.bytes) >= 1 /\ t.bytes[1] = 64

C9_RenderOrdering ==
  ((GlyphCall /\ ValidGlyph(call.gly)) \/ call.fn = "render")
  => /\ Len(wire) = 7
     /\ \A i \in 1..6 : IsCommand(wire[i]) /\ wire[i].addr = ADDR
     /\ IsData(wire[7]) /\ wire[7].addr = ADDR
     /\ {Operand(1), Operand(4)} = {SET_COL_ADDR, SET_PAGE_ADDR}
     /\ LET p == GroupOf(SET_PAGE_ADDR)
            c == GroupOf(SET_COL_ADDR)
        IN /\ Operand(c + 1) = CallArea.start_col
           /\ Operand(c + 2) = CallArea.end_col
           /\ Operand(p + 1) = CallArea.start_page
           /\ Operand(p + 2) = CallArea.end_page

C9_Witness ==
  /\ GlyphCall
  /\ ValidGlyph(call.gly)
  /\ call.x = 120
  /\ Len(wire) = 7
  /\ IsData(wire[7])

(***************************************************************************)
(* C10: on a valid glyph every source index write_glyph reads lies in      *)
(* [0, len(bits)) and every destination index it writes lies in            *)
(* [0, (height/8)*width).                                                  *)
(***************************************************************************)
C10_AccessesInBounds ==
  (GlyphCall /\ ValidGlyph(call.gly))
  => /\ \A s \in reads : 0 <= s /\ s < Len(call.gly.buf)
     /\ \A d \in writes :
          0 <= d /\ d < (call.gly.height \div 8) * call.gly.width

(***************************************************************************)
(* C11: no buffer outlives its operation: a call of write_glyph,           *)
(* write_data_buffer or clear_gddram leaves the number of outstanding heap *)
(* allocations as it found it.                                             *)
(***************************************************************************)
C11_NoBufferOutlivesCall ==
  [][(calls' = calls + 1
      /\ call'.fn \in {"write_glyph", "write_data_buffer", "clear_gddram"})
     => allocs' = allocs]_vars

====
